---------------------------- MODULE Spec2Model ----------------------------
(***************************************************************************)
(* Model of src/src/libs/camera.py: the H.264 frame relay (QueueOutput ->  *)
(* queue.Queue -> PiCameraStream.recv), the capture operations that are    *)
(* serialised through a single-worker ThreadPoolExecutor and a             *)
(* threading.Lock, and PiCameraStream.stop.                                *)
(*                                                                         *)
(* Granularity: every queue.Queue operation is one atomic step (the queue  *)
(* takes its own mutex); a read and a write of an attribute of the stream  *)
(* (self._stopped) are separate steps, because the interpreter may switch  *)
(* threads between them.                                                   *)
(***************************************************************************)
EXTENDS Naturals, Integers, Sequences, FiniteSets, TLC

\* ------------------------------------------------------------- bounds
\* queue.Queue(maxsize=30) at camera.py:138, scaled down for checking.
QueueMaxsize == 3
\* Number of outputframe invocations the encoder makes in a run.
MaxFrames == 5
\* Number of requests handed to the executor in a run.
MaxSubmits == 2

\* The time of the first outputframe call and the end of the observation, in
\* tenths of a second.
FirstFrameAt == 15
MaxTime == 25

\* ------------------------------------------------------------- program constants
\* self.queue.get(timeout=1.0) at camera.py:180, in tenths of a second.
PollTimeout == 10
\* future.result(timeout=...) of capture_array, capture_image, get_camera_info, in seconds.
ArrayTimeout == 5
ImageTimeout == 10
InfoTimeout == 2

\* pkt.time_base = Fraction(1, 90000): the denominator.
TimeBaseDen == 90000

\* ------------------------------------------------------------- inputs
\* The timestamp argument is << >> for None and <<t>> for t microseconds.
NoneTs == << >>
\* Timestamps the encoder passes, in microseconds.
TimestampInputs == {0, 1000, 1011, 2000}
\* Clock readings at the first outputframe call, in microseconds past ClockEpoch.
ClockStarts == {0, 10}

\* ------------------------------------------------------------- threads
\* "main" is the thread that constructed the stream (self._main_thread_id).
MainThread == "main"
Threads == {"main", "t1", "t2"}
\* The single thread of ThreadPoolExecutor(max_workers=1).
Worker == "worker"
AllThreads == Threads \cup {Worker}
NoThread == "none"

Kinds == {"array", "image", "info"}
TeardownSteps == {"stop_recording", "close", "shutdown", "base_stop"}

VARIABLES
  \* ---- QueueOutput / queue.Queue
  queue,        \* self.queue: the frames held, oldest first (frame = number of the call that made it)
  frame_index,  \* QueueOutput.frame_index
  ppc,          \* position of the encoder thread inside outputframe
  pkt,          \* the packet the current outputframe call built (0: none)
  calls,        \* outputframe invocations so far
  failed,       \* frames whose outputframe call raised internally
  evictions,    \* frames removed by outputframe's get_nowait
  qops,         \* queue operations made by the current outputframe call
  pexc,         \* the exception the current outputframe call is unwinding with
  encoderCrashed, \* an exception left outputframe and unwound the encoder thread
  \* ---- PiCameraStream.recv
  rpc,          \* position of the consumer inside recv
  delivered,    \* frames returned by recv, in order of return
  recvResult,   \* outcome of the last completed recv call
  \* ---- lifecycle
  stopped,      \* self._stopped
  recording,    \* the encoder is running (start_recording .. stop_recording)
  cameraOpen,   \* the Picamera2 device is open
  trackEnded,   \* MediaStreamTrack.stop() has run
  td,           \* per teardown step, the number of times stop() attempted it
  tdBy,         \* per thread, the number of teardown sequences it began
  \* ---- callers, executor, lock
  pc,           \* per thread (callers and worker), its position in the call it is in
  op,           \* per thread, the kind of capture operation it is in
  result,       \* per caller thread, the outcome of its last completed call
  myFuture,     \* per thread, the future it waits on / the worker runs (0: none)
  execq,        \* the executor's work queue: futures not yet started, oldest first
  futures,      \* the futures submitted so far, by number: [kind, state]
  lock,         \* holder of self._lock
  inDevice,     \* threads currently inside a capture / info call on self.picam2
  mainAfter,    \* futures submitted before the inline call in progress began (0: no call)
  deadline,     \* per caller thread, the timeout of the wait it is in (0: none)
  \* ---- arguments of outputframe, and the packets it built
  tsArg,        \* the timestamp argument the encoder passes: <<microseconds>>, or << >> for None
  keyArg,       \* the keyframe argument the encoder passes
  clockUs,      \* time.time_ns() // 1000, as microseconds past ClockEpoch
  fields,       \* per outputframe call, the packet it built: [raw, pts, time_base, is_keyframe]
  \* ---- time, in tenths of a second
  now,          \* the time
  waitStart,    \* the time at which the current queue.get(timeout=1.0) began
  \* ---- garbage collection
  destroyed,    \* __del__ has been called on the stream
  \* ---- src/videoStream.py: the asyncio.Queue variant of the stream
  aioQueue,     \* self.queue (asyncio.Queue, unbounded): the packets held, oldest first
  aioScheduled, \* callbacks handed to loop.call_soon_threadsafe and not yet run, oldest first
  aioFrameIndex,\* QueueOutput.frame_index of the variant
  aioCalls,     \* outputframe invocations of the variant so far
  aioStopped,   \* self._stopped of the variant
  aioRecording, \* the variant's encoder is running
  aioStopCalls, \* calls of the variant's stop() so far
  aioRecv,      \* position of the coroutine inside the variant's recv
  aioResult,    \* outcome of the last completed recv of the variant
  \* ---- QR scanning: main.py, libs/socket_server.py process_message, libs/qrcode_handler.py
  scanning,     \* QRCodeDetector.scanning
  qrTask,       \* position of the task running QRCodeDetector.start_qr_scanning
  qrCaptures,   \* capture_array calls made by the scanning loop
  qrSinceStop,  \* of these, the calls made since the last 'stopped successfully' reply
  qrUnawaited,  \* coroutine objects created and never awaited
  wsHandler,    \* position of handle_client in the message it is processing
  wsReply,      \* the last reply sent to the client
  wsMessages,   \* messages received so far
  \* ---- WebSocketServer.clients and broadcast_message
  clients,      \* self.clients
  wsOpen,       \* connections whose socket is open (a send on any other raises ConnectionClosed)
  wsEver,       \* connections that have connected so far
  bcPc,         \* position of broadcast_message
  bcTodo,       \* elements the iteration over self.clients has not reached yet
  bcLen,        \* size of self.clients when the iteration began
  bcCur,        \* the client of the send in progress
  bcSent,       \* clients whose send completed in this broadcast
  disconnected_clients, \* the local set of clients whose send raised
  exclude,      \* the exclude argument (NoConn: None)
  bcOutcome,    \* how the last broadcast ended
  bcStayed,     \* clients registered at every moment of this broadcast so far
  bcRuns,       \* broadcasts started so far
  \* ---- libs/receptacle.py
  currentProcess,     \* the global currentProcess (NoProcess: None)
  rcPc,               \* per call, its position
  rcToken,            \* per call, its random_number
  rcSeconds,          \* per countdown call, its seconds argument
  rcIdx,              \* per countdown call, the loop index i
  rcStarted,          \* the calls started so far, in order
  rcOutcome,          \* per call, how it ended
  distance_travelled, \* the global distance_travelled, in tenths of a second
  direction,          \* the global direction ("" when start_time is None)
  rcDriver,           \* the call that last commanded the motor (0: none)
  rcDrives            \* open_receptacle / close_receptacle calls so far

streamVars == <<queue, frame_index, ppc, pkt, calls, failed, evictions, qops, pexc,
                encoderCrashed, rpc, delivered, recvResult>>
lifeVars   == <<stopped, recording, cameraOpen, trackEnded, td, tdBy>>
callVars   == <<pc, op, result, myFuture>>
execVars   == <<execq, futures, lock, inDevice, mainAfter, deadline>>
packetVars == <<tsArg, keyArg, clockUs, fields>>
timeVars   == <<now, waitStart>>
cameraVars == <<streamVars, lifeVars, callVars, execVars, packetVars, timeVars, destroyed>>
aioVars    == <<aioQueue, aioScheduled, aioFrameIndex, aioCalls, aioStopped, aioRecording,
                aioStopCalls, aioRecv, aioResult>>
qrVars     == <<scanning, qrTask, qrCaptures, qrSinceStop, qrUnawaited, wsHandler, wsReply,
                wsMessages>>
bcVars     == <<clients, wsOpen, wsEver, bcPc, bcTodo, bcLen, bcCur, bcSent,
                disconnected_clients, exclude, bcOutcome, bcStayed, bcRuns>>
rcVars     == <<currentProcess, rcPc, rcToken, rcSeconds, rcIdx, rcStarted, rcOutcome,
                distance_travelled, direction, rcDriver, rcDrives>>
peerVars   == <<aioVars, qrVars, bcVars, rcVars>>
notAio     == <<cameraVars, qrVars, bcVars, rcVars>>
notQr      == <<cameraVars, aioVars, bcVars, rcVars>>
notBc      == <<cameraVars, aioVars, qrVars, rcVars>>
notRc      == <<cameraVars, aioVars, qrVars, bcVars>>
vars == <<cameraVars, peerVars>>

\* ------------------------------------------------------------- peers' inputs
\* WebSocket connections (ServerConnection objects); NoConn stands for None.
Conns == {"c1", "c2", "c3"}
NoConn == "none"
\* Message types a client sends (process_message, lines 109 and 130).
MessageTypes == {"start_qr_scanning", "stop_qr_scanning"}
\* Calls of toggle_receptacle / countdown_receptacle, by order of creation;
\* the values random.randint(0, 9999) gives them; NoProcess stands for None.
RcCalls == {1, 2, 3}
RandomInputs == {0, 1, 9999}
NoProcess == -1
\* Largest seconds argument of countdown_receptacle.
MaxSeconds == 2
\* receptacle.py line 12, MAX_DISTANCE = 0.5 s, in tenths of a second.
MAX_DISTANCE == 5

\* ------------------------------------------------------------- Init
\* src/videoStream.py, PiCameraStream.__init__ (lines 76-104): an empty
\* unbounded asyncio.Queue, recording started, _stopped False.
AioInit ==
  /\ aioQueue = << >>
  /\ aioScheduled = << >>
  /\ aioFrameIndex = 0
  /\ aioCalls = 0
  /\ aioStopped = FALSE
  /\ aioRecording = TRUE
  /\ aioStopCalls = 0
  /\ aioRecv = "idle"
  /\ aioResult = "none"

\* main.py lines 109-125 and qrcode_handler.py lines 7-9: the detector is
\* constructed with scanning False, no scanning task exists, the server has
\* received nothing.
QrInit ==
  /\ scanning = FALSE
  /\ qrTask = "none"
  /\ qrCaptures = 0
  /\ qrSinceStop = 0
  /\ qrUnawaited = 0
  /\ wsHandler = "idle"
  /\ wsReply = "none"
  /\ wsMessages = 0

\* socket_server.py lines 19-28: WebSocketServer.__init__, self.clients = set().
BcInit ==
  /\ clients = {}
  /\ wsOpen = {}
  /\ wsEver = {}
  /\ bcPc = "idle"
  /\ bcTodo = {}
  /\ bcLen = 0
  /\ bcCur = NoConn
  /\ bcSent = {}
  /\ disconnected_clients = {}
  /\ exclude = NoConn
  /\ bcOutcome = "none"
  /\ bcStayed = {}
  /\ bcRuns = 0

\* receptacle.py lines 15-18: the module's globals; no call has been made.
RcInit ==
  /\ currentProcess = NoProcess
  /\ rcPc = [p \in RcCalls |-> "none"]
  /\ rcToken = [p \in RcCalls |-> NoProcess]
  /\ rcSeconds = [p \in RcCalls |-> 0]
  /\ rcIdx = [p \in RcCalls |-> 0]
  /\ rcStarted = << >>
  /\ rcOutcome = [p \in RcCalls |-> "none"]
  /\ distance_travelled = 0
  /\ direction = ""
  /\ rcDriver = 0
  /\ rcDrives = 0

\* The other components of the program, as their construction leaves them.
PeerInit == AioInit /\ QrInit /\ BcInit /\ RcInit

\* The state PiCameraStream.__init__ leaves: recording started, empty queue,
\* _stopped False, executor created with no work, lock free.
InitWith(ts, key, clock) ==
  /\ queue = << >>
  /\ frame_index = 0
  /\ ppc = "idle"
  /\ pkt = 0
  /\ calls = 0
  /\ failed = {}
  /\ evictions = 0
  /\ qops = 0
  /\ pexc = "none"
  /\ encoderCrashed = FALSE
  /\ rpc = "idle"
  /\ delivered = << >>
  /\ recvResult = "none"
  /\ stopped = FALSE
  /\ recording = TRUE
  /\ cameraOpen = TRUE
  /\ trackEnded = FALSE
  /\ td = [s \in TeardownSteps |-> 0]
  /\ tdBy = [t \in Threads |-> 0]
  /\ pc = [t \in AllThreads |-> "idle"]
  /\ op = [t \in AllThreads |-> "none"]
  /\ result = [t \in Threads |-> "none"]
  /\ myFuture = [t \in AllThreads |-> 0]
  /\ execq = << >>
  /\ futures = << >>
  /\ lock = NoThread
  /\ inDevice = {}
  /\ mainAfter = 0
  /\ deadline = [t \in Threads |-> 0]
  /\ tsArg = ts
  /\ keyArg = key
  /\ clockUs = clock
  /\ fields = << >>
  /\ now = 0
  /\ waitStart = 0
  /\ destroyed = FALSE
  /\ PeerInit

\* The encoder passes a keyframe with timestamp 2000 us on every call.
Init == InitWith(<<2000>>, TRUE, 0)

\* The encoder's arguments are drawn from the input sets: a timestamp, or no
\* timestamp and a clock reading.
InitPacket ==
  \E key \in BOOLEAN :
    \/ \E ts \in TimestampInputs : InitWith(<<ts>>, key, 0)
    \/ \E clock \in ClockStarts : InitWith(NoneTs, key, clock)

\* ------------------------------------------------------------- queue.Queue
\* queue.Queue.full(): put_nowait raises queue.Full exactly when this holds.
Full(q) == Len(q) >= QueueMaxsize
\* queue.Queue.empty(): get_nowait raises queue.Empty exactly when this holds.
Empty(q) == Len(q) = 0

\* ------------------------------------------------------------- timestamps
\* A number of microseconds, or of 90 kHz ticks, is written [epochs, off] and
\* stands for epochs * E + off.  For microseconds E is ClockEpoch, a multiple
\* of 100 us close to time.time_ns() // 1000 (about 1.8 * 10^15 today); for
\* ticks E is ClockEpoch * 90 / 1000, an integer between 2^47 and 2^48.  The
\* encoder's timestamps have epochs = 0, clock readings have epochs = 1.
Wide(n) == [epochs |-> 0, off |-> n]
ClockReading(c) == [epochs |-> 1, off |-> c]

\* Lines 87 and 91: int(x * 90 / 1000).  x * 90 is an exact integer; / is
\* float division, correctly rounded to a double; int() truncates.
\*  - epochs = 0: the quotient is below 2^31, where doubles are less than 2^-21
\*    apart, and its fraction is a multiple of 1/100: the truncation is the
\*    floor of the exact quotient.
\*  - epochs = 1: the quotient lies in [2^47, 2^48), where doubles are 1/32
\*    apart.  The nearest double is E + m/32 with m the integer nearest to
\*    32 * off * 90 / 1000 (a tie cannot happen), and int() gives E + m \div 32.
PtsOf(x) ==
  IF x.epochs = 0
    THEN [epochs |-> 0, off |-> (x.off * 90) \div 1000]
    ELSE [epochs |-> 1, off |-> ((64 * 90 * x.off + 1000) \div 2000) \div 32]

\* Mutant of TimeBaseOf: the time base is set on the encoder-timestamp branch only.
TimeBaseOf_EncoderOnly(fromClock) == IF fromClock THEN <<0, 1>> ELSE <<1, TimeBaseDen>>

\* Line 93: pkt.time_base = Fraction(1, 90000), after the if / else of lines 85-91.
TimeBaseOf(fromClock) == <<1, TimeBaseDen>>

\* Line 82: pkt = av.Packet(frame).  The keyframe argument is used nowhere in
\* outputframe; Packet.is_keyframe reads the packet's flags, which are clear
\* in a packet made from bytes.
IsKeyframeOf(keyframe) == FALSE

\* The entry of fields for a call that built no packet.
NoPacket == [raw |-> Wide(0), pts |-> Wide(0), time_base |-> <<0, 1>>, is_keyframe |-> FALSE]

\* Lines 82-93: the packet outputframe builds from its arguments.
PacketOf(ts, key, clock) ==
  LET raw == IF ts = NoneTs THEN ClockReading(clock) ELSE Wide(ts[1])
  IN  [raw |-> raw, pts |-> PtsOf(raw), time_base |-> TimeBaseOf(ts = NoneTs),
       is_keyframe |-> IsKeyframeOf(key)]

\* ------------------------------------------------------------- QueueOutput.outputframe
\* Lines 81-93: the encoder calls outputframe; av.Packet(frame) and the pts
\* arithmetic either succeed (valid) or raise into the outer handler.
OutputframeBegin ==
  /\ ppc = "idle"
  /\ recording
  /\ ~encoderCrashed
  /\ calls < MaxFrames
  /\ \E valid \in BOOLEAN :
       /\ calls' = calls + 1
       /\ pkt' = calls + 1
       /\ qops' = 0
       /\ IF valid
            THEN ppc' = "put" /\ failed' = failed /\ pexc' = pexc
            ELSE ppc' = "except" /\ failed' = failed \cup {calls + 1} /\ pexc' = "TypeError"
       /\ fields' = Append(fields, IF valid THEN PacketOf(tsArg, keyArg, clockUs) ELSE NoPacket)
  /\ clockUs' = clockUs + 1
  /\ UNCHANGED <<queue, frame_index, evictions, encoderCrashed, rpc, delivered, recvResult>>
  /\ UNCHANGED <<lifeVars, callVars, execVars>>
  /\ UNCHANGED <<tsArg, keyArg, timeVars, destroyed>>
  /\ UNCHANGED peerVars

\* Mutant of OutputframePut: the put ignores maxsize.
OutputframePut_Unbounded ==
  /\ ppc = "put"
  /\ qops' = qops + 1
  /\ queue' = Append(queue, pkt)
  /\ frame_index' = frame_index + 1
  /\ ppc' = "idle"
  /\ pkt' = 0
  /\ UNCHANGED <<calls, failed, evictions, pexc, encoderCrashed, rpc, delivered, recvResult>>
  /\ UNCHANGED <<lifeVars, callVars, execVars>>
  /\ UNCHANGED <<packetVars, timeVars, destroyed>>
  /\ UNCHANGED peerVars

\* Mutant of OutputframePut: a blocking put, which waits for a free slot.
OutputframePut_Blocking ==
  /\ ppc = "put"
  /\ ~Full(queue)
  /\ qops' = qops + 1
  /\ queue' = Append(queue, pkt)
  /\ frame_index' = frame_index + 1
  /\ ppc' = "idle"
  /\ pkt' = 0
  /\ UNCHANGED <<calls, failed, evictions, pexc, encoderCrashed, rpc, delivered, recvResult>>
  /\ UNCHANGED <<lifeVars, callVars, execVars>>
  /\ UNCHANGED <<packetVars, timeVars, destroyed>>
  /\ UNCHANGED peerVars

\* Lines 97-100: self.queue.put_nowait(pkt); frame_index += 1; queue.Full is caught.
OutputframePut ==
  /\ ppc = "put"
  /\ qops' = qops + 1
  /\ IF Full(queue)
       THEN ppc' = "full" /\ UNCHANGED <<queue, frame_index, pkt>>
       ELSE /\ queue' = Append(queue, pkt)
            /\ frame_index' = frame_index + 1
            /\ ppc' = "idle"
            /\ pkt' = 0
  /\ UNCHANGED <<calls, failed, evictions, pexc, encoderCrashed, rpc, delivered, recvResult>>
  /\ UNCHANGED <<lifeVars, callVars, execVars>>
  /\ UNCHANGED <<packetVars, timeVars, destroyed>>
  /\ UNCHANGED peerVars

\* Mutant of OutputframeEvict: the newest frame is removed instead of the oldest.
OutputframeEvict_Newest ==
  /\ ppc = "full"
  /\ qops' = qops + 1
  /\ IF Empty(queue)
       THEN ppc' = "emptied" /\ UNCHANGED <<queue, evictions>>
       ELSE /\ queue' = SubSeq(queue, 1, Len(queue) - 1)
            /\ evictions' = evictions + 1
            /\ ppc' = "evicted"
  /\ UNCHANGED <<frame_index, pkt, calls, failed, pexc, encoderCrashed, rpc, delivered, recvResult>>
  /\ UNCHANGED <<lifeVars, callVars, execVars>>
  /\ UNCHANGED <<packetVars, timeVars, destroyed>>
  /\ UNCHANGED peerVars

\* Lines 102-103, 106: self.queue.get_nowait() removes the oldest; queue.Empty is caught.
OutputframeEvict ==
  /\ ppc = "full"
  /\ qops' = qops + 1
  /\ IF Empty(queue)
       THEN ppc' = "emptied" /\ UNCHANGED <<queue, evictions>>
       ELSE /\ queue' = Tail(queue)
            /\ evictions' = evictions + 1
            /\ ppc' = "evicted"
  /\ UNCHANGED <<frame_index, pkt, calls, failed, pexc, encoderCrashed, rpc, delivered, recvResult>>
  /\ UNCHANGED <<lifeVars, callVars, execVars>>
  /\ UNCHANGED <<packetVars, timeVars, destroyed>>
  /\ UNCHANGED peerVars

\* Mutant of OutputframeReput: the put after an eviction forgets the counter.
OutputframeReput_NoCount ==
  /\ ppc \in {"evicted", "emptied"}
  /\ qops' = qops + 1
  /\ IF Full(queue)
       THEN ppc' = "except" /\ pexc' = "Full" /\ UNCHANGED <<queue, pkt>>
       ELSE /\ queue' = Append(queue, pkt)
            /\ ppc' = "idle"
            /\ pkt' = 0
            /\ pexc' = pexc
  /\ UNCHANGED <<frame_index, calls, failed, evictions, encoderCrashed, rpc, delivered, recvResult>>
  /\ UNCHANGED <<lifeVars, callVars, execVars>>
  /\ UNCHANGED <<packetVars, timeVars, destroyed>>
  /\ UNCHANGED peerVars

\* Mutant of OutputframeReput: the new frame is put at the head of the queue.
OutputframeReput_Front ==
  /\ ppc \in {"evicted", "emptied"}
  /\ qops' = qops + 1
  /\ IF Full(queue)
       THEN ppc' = "except" /\ pexc' = "Full" /\ UNCHANGED <<queue, frame_index, pkt>>
       ELSE /\ queue' = <<pkt>> \o queue
            /\ frame_index' = frame_index + 1
            /\ ppc' = "idle"
            /\ pkt' = 0
            /\ pexc' = pexc
  /\ UNCHANGED <<calls, failed, evictions, encoderCrashed, rpc, delivered, recvResult>>
  /\ UNCHANGED <<lifeVars, callVars, execVars>>
  /\ UNCHANGED <<packetVars, timeVars, destroyed>>
  /\ UNCHANGED peerVars

\* Lines 104-105 (after the eviction) and 108-109 (after queue.Empty):
\* self.queue.put_nowait(pkt); frame_index += 1.  A queue.Full raised here is
\* caught by no inner clause and reaches the outer handler.
OutputframeReput ==
  /\ ppc \in {"evicted", "emptied"}
  /\ qops' = qops + 1
  /\ IF Full(queue)
       THEN ppc' = "except" /\ pexc' = "Full" /\ UNCHANGED <<queue, frame_index, pkt>>
       ELSE /\ queue' = Append(queue, pkt)
            /\ frame_index' = frame_index + 1
            /\ ppc' = "idle"
            /\ pkt' = 0
            /\ pexc' = pexc
  /\ UNCHANGED <<calls, failed, evictions, encoderCrashed, rpc, delivered, recvResult>>
  /\ UNCHANGED <<lifeVars, callVars, execVars>>
  /\ UNCHANGED <<packetVars, timeVars, destroyed>>
  /\ UNCHANGED peerVars

\* Mutant of IsException: the handler only matches queue exceptions.
IsException_QueueOnly(e) == e \in {"Full", "Empty"}

\* The classes "except Exception" (line 111) matches: every exception the body
\* can raise (TypeError / ValueError from av.Packet and the pts arithmetic,
\* queue.Full from put_nowait) derives from Exception.
IsException(e) == e \in {"TypeError", "ValueError", "RuntimeError", "Full", "Empty"}

\* Mutant of OutputframeExcept: the handler advances the counter.
OutputframeExcept_Counts ==
  /\ ppc = "except"
  /\ ppc' = "idle"
  /\ pkt' = 0
  /\ pexc' = "none"
  /\ frame_index' = frame_index + 1
  /\ encoderCrashed' = IF IsException(pexc) THEN encoderCrashed ELSE TRUE
  /\ UNCHANGED <<queue, calls, failed, evictions, qops, rpc, delivered, recvResult>>
  /\ UNCHANGED <<lifeVars, callVars, execVars>>
  /\ UNCHANGED <<packetVars, timeVars, destroyed>>
  /\ UNCHANGED peerVars

\* Lines 111-114: except Exception: print, traceback; the call returns
\* normally.  An exception the clause does not match leaves outputframe and
\* unwinds the encoder thread.
OutputframeExcept ==
  /\ ppc = "except"
  /\ ppc' = "idle"
  /\ pkt' = 0
  /\ pexc' = "none"
  /\ encoderCrashed' = IF IsException(pexc) THEN encoderCrashed ELSE TRUE
  /\ UNCHANGED <<queue, frame_index, calls, failed, evictions, qops,
                 rpc, delivered, recvResult>>
  /\ UNCHANGED <<lifeVars, callVars, execVars>>
  /\ UNCHANGED <<packetVars, timeVars, destroyed>>
  /\ UNCHANGED peerVars

\* ------------------------------------------------------------- PiCameraStream.recv
\* Line 166: the consumer calls recv.
RecvCall ==
  /\ rpc = "idle"
  /\ ~destroyed
  /\ rpc' = "check"
  /\ UNCHANGED <<queue, frame_index, ppc, pkt, calls, failed, evictions, qops, pexc,
                 encoderCrashed, delivered, recvResult>>
  /\ UNCHANGED <<lifeVars, callVars, execVars>>
  /\ UNCHANGED <<packetVars, timeVars, destroyed>>
  /\ UNCHANGED peerVars

\* Mutant of RecvCheck: the stopped flag is not consulted.
RecvCheck_NoStopTest ==
  /\ rpc = "check"
  /\ rpc' = "waiting"
  /\ recvResult' = recvResult
  /\ waitStart' = now
  /\ UNCHANGED <<queue, frame_index, ppc, pkt, calls, failed, evictions, qops, pexc,
                 encoderCrashed, delivered>>
  /\ UNCHANGED <<lifeVars, callVars, execVars>>
  /\ UNCHANGED <<packetVars, now, destroyed>>
  /\ UNCHANGED peerVars

\* Lines 171-172: if self._stopped: raise asyncio.CancelledError().
RecvCheck ==
  /\ rpc = "check"
  /\ IF stopped
       THEN rpc' = "idle" /\ recvResult' = "cancelled_stopped" /\ waitStart' = waitStart
       ELSE rpc' = "waiting" /\ recvResult' = recvResult /\ waitStart' = now
  /\ UNCHANGED <<queue, frame_index, ppc, pkt, calls, failed, evictions, qops, pexc,
                 encoderCrashed, delivered>>
  /\ UNCHANGED <<lifeVars, callVars, execVars>>
  /\ UNCHANGED <<packetVars, now, destroyed>>
  /\ UNCHANGED peerVars

\* Mutant of RecvGet: the newest frame is taken instead of the oldest.
RecvGet_Newest ==
  /\ rpc = "waiting"
  /\ ~Empty(queue)
  /\ delivered' = Append(delivered, queue[Len(queue)])
  /\ queue' = SubSeq(queue, 1, Len(queue) - 1)
  /\ rpc' = "idle"
  /\ recvResult' = "packet"
  /\ UNCHANGED <<frame_index, ppc, pkt, calls, failed, evictions, qops, pexc, encoderCrashed>>
  /\ UNCHANGED <<lifeVars, callVars, execVars>>
  /\ UNCHANGED <<packetVars, timeVars, destroyed>>
  /\ UNCHANGED peerVars

\* Mutant of RecvGet: the frame is returned but left in the queue.
RecvGet_Peek ==
  /\ rpc = "waiting"
  /\ ~Empty(queue)
  /\ delivered' = Append(delivered, Head(queue))
  /\ rpc' = "idle"
  /\ recvResult' = "packet"
  /\ UNCHANGED <<queue, frame_index, ppc, pkt, calls, failed, evictions, qops, pexc, encoderCrashed>>
  /\ UNCHANGED <<lifeVars, callVars, execVars>>
  /\ UNCHANGED <<packetVars, timeVars, destroyed>>
  /\ UNCHANGED peerVars

\* Mutant of RecvGet: the wait never finds the frame.
RecvGet_Never ==
  /\ FALSE
  /\ UNCHANGED vars

\* Lines 178-182: self.queue.get(timeout=1.0) finds a frame and recv returns it.
RecvGet ==
  /\ rpc = "waiting"
  /\ ~Empty(queue)
  /\ delivered' = Append(delivered, Head(queue))
  /\ queue' = Tail(queue)
  /\ rpc' = "idle"
  /\ recvResult' = "packet"
  /\ UNCHANGED <<frame_index, ppc, pkt, calls, failed, evictions, qops, pexc, encoderCrashed>>
  /\ UNCHANGED <<lifeVars, callVars, execVars>>
  /\ UNCHANGED <<packetVars, timeVars, destroyed>>
  /\ UNCHANGED peerVars

\* Mutant of RecvOutcome: the exception is passed on to the caller.
RecvOutcome_Reraise(e) == "fault"

\* Lines 183-188: what the caller of recv sees when the wait raised e:
\* queue.Empty and every other Exception become asyncio.CancelledError.
RecvOutcome(e) ==
  IF e = "Empty" THEN "cancelled_timeout"
  ELSE IF IsException(e) THEN "cancelled_error"
  ELSE "fault"

\* Mutant of RecvTimeout: queue.get() without a timeout never gives up.
RecvTimeout_NoTimeout ==
  /\ FALSE
  /\ UNCHANGED vars

\* Lines 183-185: the wait ends with the queue still empty: queue.Empty ->
\* asyncio.CancelledError.
RecvTimeout ==
  /\ rpc = "waiting"
  /\ Empty(queue)
  /\ rpc' = "idle"
  /\ recvResult' = RecvOutcome("Empty")
  /\ UNCHANGED <<queue, frame_index, ppc, pkt, calls, failed, evictions, qops, pexc,
                 encoderCrashed, delivered>>
  /\ UNCHANGED <<lifeVars, callVars, execVars>>
  /\ UNCHANGED <<packetVars, timeVars, destroyed>>
  /\ UNCHANGED peerVars

Producer == OutputframeBegin \/ OutputframePut \/ OutputframeEvict
              \/ OutputframeReput \/ OutputframeExcept
\* Lines 178-179, 186-188: handing the wait to the loop's default executor
\* fails (run_in_executor raises RuntimeError); no frame is taken.
RecvError ==
  /\ rpc = "waiting"
  /\ rpc' = "idle"
  /\ recvResult' = RecvOutcome("RuntimeError")
  /\ UNCHANGED <<queue, frame_index, ppc, pkt, calls, failed, evictions, qops, pexc,
                 encoderCrashed, delivered>>
  /\ UNCHANGED <<lifeVars, callVars, execVars>>
  /\ UNCHANGED <<packetVars, timeVars, destroyed>>
  /\ UNCHANGED peerVars

Consumer == RecvCall \/ RecvCheck \/ RecvGet \/ RecvTimeout \/ RecvError

\* ------------------------------------------------------------- time
\* Mutant of GetExpired: a wait that gives up at once (get_nowait).
GetExpired_AtOnce(start, t) == TRUE

\* Line 180: a queue.get(timeout=1.0) begun at start has run out of time at t.
GetExpired(start, t) == t >= start + PollTimeout

\* A tenth of a second passes.  The steps of the program take no time: time
\* passes only between calls and inside the wait of queue.get, which returns
\* as soon as a frame is there and gives up when its timeout has run out.
Tick ==
  /\ now < MaxTime
  /\ ppc = "idle"
  /\ rpc # "check"
  /\ rpc = "waiting" => Empty(queue) /\ ~GetExpired(waitStart, now)
  /\ now' = now + 1
  /\ UNCHANGED <<streamVars, lifeVars, callVars, execVars>>
  /\ UNCHANGED <<packetVars, waitStart, destroyed>>
  /\ UNCHANGED peerVars

\* The consumer polls: it calls recv again as soon as a call has ended, so
\* time passes only while it waits; no frame is produced before FirstFrameAt.
PollTick == Tick /\ rpc = "waiting" /\ (calls = 0 => now < FirstFrameAt)
\* The encoder delivers its frames from FirstFrameAt on.
PollFrame == OutputframeBegin /\ now >= FirstFrameAt
\* The wait of queue.get ends without a frame when its timeout has run out.
PollGiveUp == RecvTimeout /\ GetExpired(waitStart, now)

\* ------------------------------------------------------------- PiCameraStream.stop
\* Line 297: thread t calls stop().
StopCall(t) ==
  /\ pc[t] = "idle"
  /\ ~destroyed
  /\ pc' = [pc EXCEPT ![t] = "stop_check"]
  /\ UNCHANGED <<op, result, myFuture>>
  /\ UNCHANGED <<streamVars, lifeVars, execVars>>
  /\ UNCHANGED <<packetVars, timeVars, destroyed>>
  /\ UNCHANGED peerVars

\* Mutant of StopCheck: the early return is missing.
StopCheck_NoEarlyReturn(t) ==
  /\ pc[t] = "stop_check"
  /\ pc' = [pc EXCEPT ![t] = "stop_set"]
  /\ result' = result
  /\ UNCHANGED <<op, myFuture>>
  /\ UNCHANGED <<streamVars, lifeVars, execVars>>
  /\ UNCHANGED <<packetVars, timeVars, destroyed>>
  /\ UNCHANGED peerVars

\* Mutant of StopCheck: stop() on a stopped stream marks it running again.
StopCheck_Restarts(t) ==
  /\ pc[t] = "stop_check"
  /\ IF stopped
       THEN /\ pc' = [pc EXCEPT ![t] = "idle"]
            /\ result' = [result EXCEPT ![t] = "returned"]
            /\ stopped' = FALSE
       ELSE /\ pc' = [pc EXCEPT ![t] = "stop_set"]
            /\ result' = result
            /\ stopped' = stopped
  /\ UNCHANGED <<recording, cameraOpen, trackEnded, td, tdBy>>
  /\ UNCHANGED <<op, myFuture>>
  /\ UNCHANGED <<streamVars, execVars>>
  /\ UNCHANGED <<packetVars, timeVars, destroyed>>
  /\ UNCHANGED peerVars

\* Lines 302-303: if self._stopped: return.
StopCheck(t) ==
  /\ pc[t] = "stop_check"
  /\ IF stopped
       THEN /\ pc' = [pc EXCEPT ![t] = "idle"]
            /\ result' = [result EXCEPT ![t] = "returned"]
       ELSE /\ pc' = [pc EXCEPT ![t] = "stop_set"]
            /\ result' = result
  /\ UNCHANGED <<op, myFuture>>
  /\ UNCHANGED <<streamVars, lifeVars, execVars>>
  /\ UNCHANGED <<packetVars, timeVars, destroyed>>
  /\ UNCHANGED peerVars

\* Line 305: self._stopped = True; the teardown sequence begins.
StopSet(t) ==
  /\ pc[t] = "stop_set"
  /\ stopped' = TRUE
  /\ tdBy' = [tdBy EXCEPT ![t] = @ + 1]
  /\ pc' = [pc EXCEPT ![t] = "stop_recording"]
  /\ UNCHANGED <<recording, cameraOpen, trackEnded, td>>
  /\ UNCHANGED <<op, result, myFuture>>
  /\ UNCHANGED <<streamVars, execVars>>
  /\ UNCHANGED <<packetVars, timeVars, destroyed>>
  /\ UNCHANGED peerVars

\* Mutant of StopRecording: an exception of stop_recording ends stop().
StopRecording_Propagates(t) ==
  /\ pc[t] = "stop_recording"
  /\ td' = [td EXCEPT !["stop_recording"] = @ + 1]
  /\ \E ok \in BOOLEAN :
       IF ok THEN /\ recording' = FALSE
                  /\ pc' = [pc EXCEPT ![t] = "close"]
                  /\ result' = result
             ELSE /\ recording' = recording
                  /\ pc' = [pc EXCEPT ![t] = "idle"]
                  /\ result' = [result EXCEPT ![t] = "raised"]
  /\ UNCHANGED <<stopped, cameraOpen, trackEnded, tdBy>>
  /\ UNCHANGED <<op, myFuture>>
  /\ UNCHANGED <<streamVars, execVars>>
  /\ UNCHANGED <<packetVars, timeVars, destroyed>>
  /\ UNCHANGED peerVars

\* Lines 307-311: self.picam2.stop_recording(); an exception is swallowed.
StopRecording(t) ==
  /\ pc[t] = "stop_recording"
  /\ td' = [td EXCEPT !["stop_recording"] = @ + 1]
  /\ \E ok \in BOOLEAN : recording' = IF ok THEN FALSE ELSE recording
  /\ pc' = [pc EXCEPT ![t] = "close"]
  /\ UNCHANGED <<stopped, cameraOpen, trackEnded, tdBy>>
  /\ UNCHANGED <<op, result, myFuture>>
  /\ UNCHANGED <<streamVars, execVars>>
  /\ UNCHANGED <<packetVars, timeVars, destroyed>>
  /\ UNCHANGED peerVars

\* Lines 313-317: self.picam2.close(); an exception is swallowed.
StopClose(t) ==
  /\ pc[t] = "close"
  /\ td' = [td EXCEPT !["close"] = @ + 1]
  /\ \E ok \in BOOLEAN : cameraOpen' = IF ok THEN FALSE ELSE cameraOpen
  /\ pc' = [pc EXCEPT ![t] = "shutdown"]
  /\ UNCHANGED <<stopped, recording, trackEnded, tdBy>>
  /\ UNCHANGED <<op, result, myFuture>>
  /\ UNCHANGED <<streamVars, execVars>>
  /\ UNCHANGED <<packetVars, timeVars, destroyed>>
  /\ UNCHANGED peerVars

\* Lines 319-323: self._executor.shutdown(wait=True, timeout=5.0).
\* concurrent.futures.Executor.shutdown(wait=True, *, cancel_futures=False) has
\* no timeout parameter: the call raises TypeError before the executor is
\* touched, and the handler at line 322 prints a warning.  The worker and its
\* work queue are left as they were.
StopShutdown(t) ==
  /\ pc[t] = "shutdown"
  /\ td' = [td EXCEPT !["shutdown"] = @ + 1]
  /\ pc' = [pc EXCEPT ![t] = "base_stop"]
  /\ UNCHANGED <<stopped, recording, cameraOpen, trackEnded, tdBy>>
  /\ UNCHANGED <<op, result, myFuture>>
  /\ UNCHANGED <<streamVars, execVars>>
  /\ UNCHANGED <<packetVars, timeVars, destroyed>>
  /\ UNCHANGED peerVars

\* Lines 325-331: super().stop(); an exception is swallowed; stop() returns.
StopBase(t) ==
  /\ pc[t] = "base_stop"
  /\ td' = [td EXCEPT !["base_stop"] = @ + 1]
  /\ \E ok \in BOOLEAN : trackEnded' = IF ok THEN TRUE ELSE trackEnded
  /\ pc' = [pc EXCEPT ![t] = "idle"]
  /\ result' = [result EXCEPT ![t] = "returned"]
  /\ UNCHANGED <<stopped, recording, cameraOpen, tdBy>>
  /\ UNCHANGED <<op, myFuture>>
  /\ UNCHANGED <<streamVars, execVars>>
  /\ UNCHANGED <<packetVars, timeVars, destroyed>>
  /\ UNCHANGED peerVars

Stop(t) == StopCall(t) \/ StopCheck(t) \/ StopSet(t) \/ StopRecording(t)
             \/ StopClose(t) \/ StopShutdown(t) \/ StopBase(t)

\* ------------------------------------------------------------- PiCameraStream.__del__
\* The last reference to the stream is gone: no thread is inside one of its
\* methods and no work item of the executor is bound to it.
Unreferenced ==
  /\ \A e \in AllThreads : pc[e] = "idle"
  /\ rpc = "idle"
  /\ execq = << >>

\* Mutant of DelCall: the destructor does nothing.
DelCall_NoTeardown(t) ==
  /\ ~destroyed
  /\ Unreferenced
  /\ destroyed' = TRUE
  /\ UNCHANGED <<streamVars, lifeVars, callVars, execVars>>
  /\ UNCHANGED <<packetVars, timeVars>>
  /\ UNCHANGED peerVars

\* Lines 333-341: __del__ runs on thread t, the one that dropped the last
\* reference: if not self._stopped, it calls self.stop() inside
\* try / except Exception: pass.
DelCall(t) ==
  /\ ~destroyed
  /\ Unreferenced
  /\ destroyed' = TRUE
  /\ pc' = IF stopped THEN pc ELSE [pc EXCEPT ![t] = "stop_check"]
  /\ UNCHANGED <<op, result, myFuture>>
  /\ UNCHANGED <<streamVars, lifeVars, execVars>>
  /\ UNCHANGED <<packetVars, timeVars>>
  /\ UNCHANGED peerVars

\* ------------------------------------------------------------- capture_array / capture_image / get_camera_info
Done(f) == futures[f].state \in {"value", "None", "exception"}
SetFuture(f, st) == [futures EXCEPT ![f] = [@ EXCEPT !.state = st]]

\* Lines 195-197, 231-233, 269-270: called on the constructing thread, the
\* operation runs inline.
CaptureInline(t, k) ==
  /\ t = MainThread
  /\ pc[t] = "idle"
  /\ ~destroyed
  /\ pc' = [pc EXCEPT ![t] = "direct_check"]
  /\ op' = [op EXCEPT ![t] = k]
  /\ mainAfter' = Len(futures)
  /\ UNCHANGED <<result, myFuture>>
  /\ UNCHANGED <<execq, futures, lock, inDevice, deadline>>
  /\ UNCHANGED <<streamVars, lifeVars>>
  /\ UNCHANGED <<packetVars, timeVars, destroyed>>
  /\ UNCHANGED peerVars

\* Mutant of TimeoutOf: every kind waits as long as capture_array.
TimeoutOf_Same(k) == ArrayTimeout

\* Lines 203, 238, 274: the timeout each kind of call gives future.result.
TimeoutOf(k) ==
  CASE k = "array" -> ArrayTimeout
    [] k = "image" -> ImageTimeout
    [] k = "info"  -> InfoTimeout

\* Lines 198-203, 234-238, 271-274: called on any other thread, the operation
\* is submitted to the executor and the caller waits on the future.
CaptureSubmit(t, k) ==
  /\ t # MainThread
  /\ pc[t] = "idle"
  /\ ~destroyed
  /\ Len(futures) < MaxSubmits
  /\ futures' = Append(futures, [kind |-> k, state |-> "pending"])
  /\ execq' = Append(execq, Len(futures) + 1)
  /\ myFuture' = [myFuture EXCEPT ![t] = Len(futures) + 1]
  /\ pc' = [pc EXCEPT ![t] = "wait"]
  /\ op' = [op EXCEPT ![t] = k]
  /\ deadline' = [deadline EXCEPT ![t] = TimeoutOf(k)]
  /\ UNCHANGED <<result, lock, inDevice, mainAfter>>
  /\ UNCHANGED <<streamVars, lifeVars>>
  /\ UNCHANGED <<packetVars, timeVars, destroyed>>
  /\ UNCHANGED peerVars

\* ThreadPoolExecutor(max_workers=1), line 135: the worker takes the oldest
\* work item and starts running it.
WorkerTake ==
  /\ pc[Worker] = "idle"
  /\ execq # << >>
  /\ execq' = Tail(execq)
  /\ myFuture' = [myFuture EXCEPT ![Worker] = Head(execq)]
  /\ op' = [op EXCEPT ![Worker] = futures[Head(execq)].kind]
  /\ futures' = SetFuture(Head(execq), "running")
  /\ pc' = [pc EXCEPT ![Worker] = "direct_check"]
  /\ UNCHANGED <<result, lock, inDevice, mainAfter, deadline>>
  /\ UNCHANGED <<streamVars, lifeVars>>
  /\ UNCHANGED <<packetVars, timeVars, destroyed>>
  /\ UNCHANGED peerVars

\* The operation running on thread e ends with outcome out: the inline caller
\* gets it as the call's outcome, the worker stores it in the future.
Finish(e, out) ==
  /\ pc' = [pc EXCEPT ![e] = "idle"]
  /\ op' = [op EXCEPT ![e] = "none"]
  /\ mainAfter' = IF e = Worker THEN mainAfter ELSE 0
  /\ IF e = Worker
       THEN /\ futures' = SetFuture(myFuture[e], IF out = "raised" THEN "exception" ELSE out)
            /\ myFuture' = [myFuture EXCEPT ![e] = 0]
            /\ result' = result
       ELSE /\ result' = [result EXCEPT ![e] = out]
            /\ UNCHANGED <<futures, myFuture>>

\* Lines 216-217, 250-251: if self._stopped: raise RuntimeError (outside any
\* try); _get_camera_info_direct (282-287) has no such check.
DirectCheck(e) ==
  /\ pc[e] = "direct_check"
  /\ IF op[e] # "info" /\ stopped
       THEN Finish(e, "raised")
       ELSE /\ pc' = [pc EXCEPT ![e] = "lock"]
            /\ UNCHANGED <<op, result, myFuture, futures, mainAfter>>
  /\ UNCHANGED <<execq, lock, inDevice, deadline>>
  /\ UNCHANGED <<streamVars, lifeVars>>
  /\ UNCHANGED <<packetVars, timeVars, destroyed>>
  /\ UNCHANGED peerVars

\* Mutant of LockAvailable: the lock excludes nobody.
LockAvailable_NoMutex == TRUE

\* threading.Lock (line 141): acquire succeeds only while nobody holds it.
LockAvailable == lock = NoThread

\* Lines 220-221, 254-256, 287-288: with self._lock: the call on self.picam2 begins.
DirectEnter(e) ==
  /\ pc[e] = "lock"
  /\ LockAvailable
  /\ lock' = e
  /\ inDevice' = inDevice \cup {e}
  /\ pc' = [pc EXCEPT ![e] = "device"]
  /\ UNCHANGED <<op, result, myFuture, execq, futures, mainAfter, deadline>>
  /\ UNCHANGED <<streamVars, lifeVars>>
  /\ UNCHANGED <<packetVars, timeVars, destroyed>>
  /\ UNCHANGED peerVars

\* Lines 221-224, 256-263, 288-295: the device call returns or raises (caught:
\* None); the with block releases the lock either way.
DirectExit(e) ==
  /\ pc[e] = "device"
  /\ lock' = NoThread
  /\ inDevice' = inDevice \ {e}
  /\ \E ok \in BOOLEAN : Finish(e, IF ok THEN "value" ELSE "None")
  /\ UNCHANGED <<execq, deadline>>
  /\ UNCHANGED <<streamVars, lifeVars>>
  /\ UNCHANGED <<packetVars, timeVars, destroyed>>
  /\ UNCHANGED peerVars

\* Mutant of FutureResult: the caller is handed the oldest future's outcome.
FutureResult_First(t) ==
  /\ pc[t] = "wait"
  /\ Done(myFuture[t])
  /\ result' = [result EXCEPT ![t] =
                  IF futures[1].state = "value" THEN "value" ELSE "None"]
  /\ pc' = [pc EXCEPT ![t] = "idle"]
  /\ op' = [op EXCEPT ![t] = "none"]
  /\ myFuture' = [myFuture EXCEPT ![t] = 0]
  /\ deadline' = [deadline EXCEPT ![t] = 0]
  /\ UNCHANGED <<execq, futures, lock, inDevice, mainAfter>>
  /\ UNCHANGED <<streamVars, lifeVars>>
  /\ UNCHANGED <<packetVars, timeVars, destroyed>>
  /\ UNCHANGED peerVars

\* Lines 203, 207-209 (238, 242-244; 274, 278-280): future.result returns the
\* value, or re-raises the operation's exception, which becomes None.
FutureResult(t) ==
  /\ pc[t] = "wait"
  /\ Done(myFuture[t])
  /\ result' = [result EXCEPT ![t] =
                  IF futures[myFuture[t]].state = "value" THEN "value" ELSE "None"]
  /\ pc' = [pc EXCEPT ![t] = "idle"]
  /\ op' = [op EXCEPT ![t] = "none"]
  /\ myFuture' = [myFuture EXCEPT ![t] = 0]
  /\ deadline' = [deadline EXCEPT ![t] = 0]
  /\ UNCHANGED <<execq, futures, lock, inDevice, mainAfter>>
  /\ UNCHANGED <<streamVars, lifeVars>>
  /\ UNCHANGED <<packetVars, timeVars, destroyed>>
  /\ UNCHANGED peerVars

\* Mutant of FutureTimeout: the timed-out caller cancels its future.
FutureTimeout_Cancels(t) ==
  /\ pc[t] = "wait"
  /\ ~Done(myFuture[t])
  /\ result' = [result EXCEPT ![t] = "None"]
  /\ pc' = [pc EXCEPT ![t] = "idle"]
  /\ op' = [op EXCEPT ![t] = "none"]
  /\ myFuture' = [myFuture EXCEPT ![t] = 0]
  /\ deadline' = [deadline EXCEPT ![t] = 0]
  /\ IF futures[myFuture[t]].state = "pending"
       THEN /\ futures' = SetFuture(myFuture[t], "cancelled")
            /\ execq' = SelectSeq(execq, LAMBDA f : f # myFuture[t])
       ELSE UNCHANGED <<futures, execq>>
  /\ UNCHANGED <<lock, inDevice, mainAfter>>
  /\ UNCHANGED <<streamVars, lifeVars>>
  /\ UNCHANGED <<packetVars, timeVars, destroyed>>
  /\ UNCHANGED peerVars

\* Lines 204-206 (239-241; 275-277): the wait times out before the future is
\* done; the caller gets None and the future is left as it is.
FutureTimeout(t) ==
  /\ pc[t] = "wait"
  /\ ~Done(myFuture[t])
  /\ result' = [result EXCEPT ![t] = "None"]
  /\ pc' = [pc EXCEPT ![t] = "idle"]
  /\ op' = [op EXCEPT ![t] = "none"]
  /\ myFuture' = [myFuture EXCEPT ![t] = 0]
  /\ deadline' = [deadline EXCEPT ![t] = 0]
  /\ UNCHANGED <<execq, futures, lock, inDevice, mainAfter>>
  /\ UNCHANGED <<streamVars, lifeVars>>
  /\ UNCHANGED <<packetVars, timeVars, destroyed>>
  /\ UNCHANGED peerVars

Capture(t) == \/ \E k \in Kinds : CaptureInline(t, k) \/ CaptureSubmit(t, k)
              \/ FutureResult(t)
              \/ FutureTimeout(t)
Direct(e) == DirectCheck(e) \/ DirectEnter(e) \/ DirectExit(e)

\* ------------------------------------------------------------- specifications
\* The whole program: encoder thread, consumer, caller threads, worker.
Next ==
  \/ Producer
  \/ Consumer
  \/ \E t \in Threads : Stop(t) \/ Capture(t)
  \/ WorkerTake
  \/ Direct(MainThread)
  \/ Direct(Worker)
Spec == Init /\ [][Next]_vars

\* The frame relay: encoder thread and consumer, with stop() called on the
\* constructing thread.
StreamNext == Producer \/ Consumer \/ Stop(MainThread)
SpecStream == Init /\ [][StreamNext]_vars

\* stop() called from two threads.
Stoppers == {"main", "t1"}
StopNext == \E t \in Stoppers : Stop(t)
SpecStop == Init /\ [][StopNext]_vars

\* Capture operations requested from every thread, and the worker.
CaptureNext ==
  \/ \E t \in Threads : Capture(t)
  \/ WorkerTake
  \/ Direct(MainThread)
  \/ Direct(Worker)
SpecCapture == Init /\ [][CaptureNext]_vars

\* Capture operations from the constructing thread and one other thread, with
\* every thread scheduled again and again: the worker takes queued work and
\* each running operation goes on; a thread waiting for self._lock gets it if
\* it is released again and again.
FairCallers == {"main", "t1"}
CaptureFairNext ==
  \/ \E t \in FairCallers : Capture(t)
  \/ WorkerTake
  \/ Direct(MainThread)
  \/ Direct(Worker)
SpecCaptureFair ==
  /\ Init /\ [][CaptureFairNext]_vars
  /\ WF_vars(WorkerTake)
  /\ WF_vars(DirectCheck(Worker) \/ DirectExit(Worker))
  /\ SF_vars(DirectEnter(Worker))
  /\ WF_vars(Direct(MainThread))

\* Capture operations from the constructing thread and one other thread, the
\* worker, and stop() called from a third thread.
CaptureStopNext ==
  \/ \E t \in {"main", "t1"} : Capture(t)
  \/ WorkerTake
  \/ Direct(MainThread)
  \/ Direct(Worker)
  \/ Stop("t2")
SpecCaptureStop == Init /\ [][CaptureStopNext]_vars

\* stop() and the destructor, on any thread.
DelNext == \E t \in Threads : Stop(t) \/ DelCall(t)
SpecDel == Init /\ [][DelNext]_vars

\* The whole life of a stream used from its constructing thread: the frame
\* relay, inline capture calls, stop() and the destructor.
LifeNext ==
  \/ Producer
  \/ Consumer
  \/ \E k \in Kinds : CaptureInline(MainThread, k)
  \/ Direct(MainThread)
  \/ Stop(MainThread)
  \/ DelCall(MainThread)
SpecLife == Init /\ [][LifeNext]_vars

\* The frame relay in time: a consumer polling an empty queue from time 0 and
\* an encoder whose first frame comes at FirstFrameAt.
PollNext ==
  \/ PollTick
  \/ PollFrame
  \/ OutputframePut \/ OutputframeEvict \/ OutputframeReput \/ OutputframeExcept
  \/ RecvCall \/ RecvCheck \/ RecvGet
  \/ PollGiveUp
SpecPoll == Init /\ [][PollNext]_vars

\* The frame relay of a running stream whose consumer keeps calling recv:
\* each recv step that can be taken is taken in the end.
RelayNext == Producer \/ RecvCall \/ RecvCheck \/ RecvGet \/ RecvTimeout
SpecRelayFair ==
  /\ Init /\ [][RelayNext]_vars
  /\ WF_vars(RecvCall)
  /\ WF_vars(RecvCheck)
  /\ WF_vars(RecvGet)

\* The frame relay with the encoder's arguments drawn from the input sets.
PacketNext == Producer \/ Consumer
SpecPacket == InitPacket /\ [][PacketNext]_vars

\* ------------------------------------------------------------- properties
Range(q) == {q[i] : i \in 1..Len(q)}
Increasing(q) == \A i, j \in 1..Len(q) : i < j => q[i] < q[j]
\* Frames whose outputframe call was given a valid frame, and all frames of
\* completed or running calls.
ValidFrames == (1..calls) \ failed
\* The n most recently pushed valid frames.
Newest(n) == {v \in ValidFrames : Cardinality({w \in ValidFrames : w > v}) < n}

\* C1: in every reachable state of every interleaving of outputframe and recv,
\* the queue holds at most QueueMaxsize frames.
C1_QueueBounded == Len(queue) <= QueueMaxsize
\* The queue is at capacity after an overflow, with recv dequeues interleaved.
C1_Witness == Len(queue) = QueueMaxsize /\ evictions > 0 /\ Len(delivered) > 0

\* C2: the frames recv returns are, in order, a subsequence of the frames
\* pushed: strictly increasing push numbers (no reordering, no duplicate), each
\* one a frame that was pushed.
C2_DeliveredInPushOrder == Increasing(delivered) /\ Range(delivered) \subseteq ValidFrames
\* Two frames were delivered with a dropped frame between them.
C2_Witness ==
  /\ evictions > 0
  /\ \E i \in 1..Len(delivered) - 1 : delivered[i + 1] > delivered[i] + 1

\* C3: with no recv dequeue, once more than QueueMaxsize valid frames were
\* pushed and no call is in progress, the queue holds exactly the QueueMaxsize
\* most recently pushed frames, in push order.
C3_KeepsNewest ==
  (Len(delivered) = 0 /\ ppc = "idle" /\ Cardinality(ValidFrames) > QueueMaxsize)
    => /\ Len(queue) = QueueMaxsize
       /\ Increasing(queue)
       /\ Range(queue) = Newest(QueueMaxsize)
\* Two more frames than the capacity were pushed: the two oldest are gone.
C3_Witness ==
  /\ Len(delivered) = 0 /\ ppc = "idle" /\ failed = {}
  /\ calls = QueueMaxsize + 2
  /\ queue = [i \in 1..QueueMaxsize |-> i + 2]

\* C4: at most one thread is inside a call on the Picamera2 device at any
\* moment, whichever threads call capture_array, capture_image, get_camera_info.
C4_OneInDevice == Cardinality(inDevice) <= 1
\* The constructing thread and the worker contend: one is in the device, the
\* other waits for the lock.
C4_Witness ==
  \E a, b \in {MainThread, Worker} : a # b /\ pc[a] = "device" /\ pc[b] = "lock"

\* C5: an outputframe call in progress can always take its next step, whatever
\* the consumer does (none of its queue operations waits), and it makes at most
\* three queue operations.
C5_NeverWaits ==
  /\ qops <= 3
  /\ ppc # "idle" => ENABLED (OutputframePut \/ OutputframeEvict
                                \/ OutputframeReput \/ OutputframeExcept)
\* A call that found the queue full has completed with no frame ever dequeued.
C5_Witness == ppc = "idle" /\ qops = 3 /\ Len(delivered) = 0 /\ rpc = "idle"

\* C6: no exception leaves outputframe, and whenever no call is in progress
\* every call made with a valid frame, also after failed calls, has enqueued
\* its frame.
C6_FailuresSwallowed ==
  /\ ~encoderCrashed
  /\ ppc = "idle" => frame_index = Cardinality(ValidFrames)
\* A frame pushed after a failed call is in the queue.
C6_Witness ==
  /\ ppc = "idle"
  /\ \E f \in failed : \E g \in Range(queue) : g > f

\* C7 as claimed: no recv dequeue takes effect between the producer finding
\* the queue full, evicting and inserting.
C7_EvictInsertAtomic ==
  [][(ppc \in {"full", "evicted"}) => (delivered' = delivered)]_vars
\* C7 as amended: each queue operation of outputframe is atomic, the sequence
\* is not; however recv dequeues interleave, the producer removes only the
\* frame that is oldest at that moment, one per call, and then inserts its
\* frame at the tail within the capacity.
C7_EvictThenInsert ==
  [][ /\ evictions' # evictions
          => /\ ppc = "full" /\ ppc' = "evicted"
             /\ queue' = Tail(queue)
             /\ evictions' = evictions + 1
      /\ (ppc \in {"evicted", "emptied"} /\ ppc' = "idle")
          => /\ queue' = Append(queue, pkt)
             /\ Len(queue') <= QueueMaxsize ]_vars
\* recv dequeued between the producer's full check and its eviction.
C7_Witness == ppc = "evicted" /\ Len(queue) < QueueMaxsize - 1

\* C8: under concurrent stop() calls every teardown step runs at most once
\* (exactly once when the calls have returned) and no caller sees an exception.
C8_TeardownOnce ==
  /\ \A s \in TeardownSteps : td[s] <= 1
  /\ \A t \in Threads : result[t] # "raised"
  /\ (\A t \in Threads : pc[t] = "idle") /\ stopped
       => \A s \in TeardownSteps : td[s] = 1

\* C9: a stop() call that finds the stream stopped returns at once, running
\* no teardown step and changing nothing; the stop() calls one thread makes in
\* sequence run the teardown at most once.
C9_StopIdempotent ==
  /\ [](\A t \in Threads : tdBy[t] <= 1)
  /\ [][\A t \in Threads :
          (pc[t] = "stop_check" /\ stopped /\ pc'[t] # "stop_check")
            => /\ pc'[t] = "idle"
               /\ result'[t] = "returned"
               /\ UNCHANGED <<streamVars, lifeVars, execVars>>]_vars
\* A thread returned from stop() without having run any teardown.
C9_Witness ==
  \E t \in Threads :
    stopped /\ pc[t] = "idle" /\ result[t] = "returned" /\ tdBy[t] = 0

\* C10: once the stream is marked stopped, a recv call signals cancellation at
\* its first step, never waits on the queue and removes no frame.
C10_RecvAfterStop ==
  [][(rpc = "check" /\ stopped /\ rpc' # "check")
       => /\ rpc' = "idle"
          /\ recvResult' = "cancelled_stopped"
          /\ queue' = queue
          /\ delivered' = delivered]_vars
\* recv was cancelled by the stopped flag while frames were queued.
C10_Witness == stopped /\ rpc = "idle" /\ recvResult = "cancelled_stopped" /\ queue # << >>

Cancelled == {"cancelled_stopped", "cancelled_timeout", "cancelled_error"}

\* C11 as claimed: a recv call that is waiting when the stream is marked
\* stopped never returns a frame.
C11_NoFrameAfterStop ==
  [][(stopped /\ rpc = "waiting" /\ rpc' = "idle") => (recvResult' # "packet")]_vars
\* C11 as amended: a waiting recv call can always end, by a frame or by its
\* poll timeout; once the stream is marked stopped it ends in a cancellation
\* signal when the queue is empty, and with the oldest frame when one is queued.
C11_WaitEndsByTimeout ==
  /\ [](rpc = "waiting" => ENABLED (RecvGet \/ RecvTimeout))
  /\ [][(stopped /\ rpc = "waiting" /\ rpc' = "idle")
          => IF Empty(queue)
               THEN recvResult' \in Cancelled /\ delivered' = delivered
               ELSE recvResult' = "packet" => delivered' = Append(delivered, Head(queue))]_vars
\* stop() marked the stream while recv waited, and a frame is there to return.
C11_Witness == stopped /\ rpc = "waiting" /\ queue # << >>

\* C12: a recv call that reached the wait ends either with the oldest queued
\* frame, removed from the queue, or with a cancellation signal and the queue
\* untouched; a timeout happens only on an empty queue and nothing reaches the
\* caller as a fault.
C12_FrameOrCancelled ==
  [][(rpc = "waiting" /\ rpc' = "idle")
       => \/ /\ recvResult' = "packet"
             /\ queue # << >>
             /\ delivered' = Append(delivered, Head(queue))
             /\ queue' = Tail(queue)
          \/ /\ recvResult' \in {"cancelled_timeout", "cancelled_error"}
             /\ recvResult' = "cancelled_timeout" => queue = << >>
             /\ queue' = queue
             /\ delivered' = delivered]_vars
\* On a running stream a call timed out after an earlier one returned a frame.
C12_Witness ==
  ~stopped /\ rpc = "idle" /\ recvResult = "cancelled_timeout" /\ delivered # << >>

\* C19: frame_index never decreases, and every outputframe call that admits
\* its frame, directly or after an eviction, leaves it greater by one.
C19_CounterIncreases ==
  [][ /\ frame_index' >= frame_index
      /\ (ppc \in {"put", "evicted", "emptied"} /\ ppc' = "idle")
           => frame_index' = frame_index + 1 ]_vars
\* Frames were admitted after evictions.
C19_Witness == ppc = "idle" /\ evictions > 0 /\ frame_index > QueueMaxsize

\* C20 as claimed: every outputframe invocation, failed ones included, has
\* advanced frame_index exactly once when it returns.
C20_CountsEveryCall == ppc = "idle" => frame_index = calls
\* C20 as amended: frame_index advances by one exactly in the step that
\* admits a frame; an invocation that fails internally leaves it unchanged.
C20_CountsAdmitted ==
  [][frame_index' = IF ppc \in {"put", "evicted", "emptied"} /\ ppc' = "idle"
                      THEN frame_index + 1
                      ELSE frame_index]_vars
\* A failed call has returned and frame_index is behind the number of calls.
C20_Witness == ppc = "idle" /\ failed # {} /\ frame_index < calls /\ frame_index > 0

\* The operation of future f has entered the device, or ended without it.
Entered(f) ==
  \/ Done(f)
  \/ futures[f].state = "running" /\ myFuture[Worker] = f /\ pc[Worker] = "device"
\* The constructing thread has an inline call that has not entered the device.
MainAhead == pc[MainThread] \in {"direct_check", "lock"}

\* C13: operations enter the device in the order in which they were requested:
\* the inline call of the constructing thread enters only after every operation
\* submitted before it, and a submitted operation enters only after an inline
\* call that was made before it was submitted.
C13_InRequestOrder ==
  [][ /\ (pc[MainThread] = "lock" /\ pc'[MainThread] = "device")
           => \A f \in 1..mainAfter : Entered(f)
      /\ (pc[Worker] = "lock" /\ pc'[Worker] = "device")
           => ~(MainAhead /\ mainAfter < myFuture[Worker]) ]_vars

\* The outcome a caller takes from a finished future.
OutcomeOf(f) == IF futures[f].state = "value" THEN "value" ELSE "None"
\* Future f is not done and nobody waits for it any more.
Abandoned(f) == ~Done(f) /\ \A t \in Threads : myFuture[t] # f

\* C14: the step in which a caller's wait times out gives the caller None and
\* leaves the future and the work queue as they were; a future that is not
\* done is always either queued or the one the worker runs; and every
\* submitted operation is eventually done.
C14_TimeoutLeavesOperation ==
  /\ [][\A t \in Threads :
          (pc[t] = "wait" /\ pc'[t] = "idle" /\ ~Done(myFuture[t]))
            => /\ result'[t] = "None"
               /\ futures' = futures
               /\ execq' = execq]_vars
  /\ [](\A f \in 1..Len(futures) :
          \/ Done(f)
          \/ futures[f].state = "pending" /\ f \in Range(execq)
          \/ futures[f].state = "running" /\ myFuture[Worker] = f)
  /\ \A f \in 1..MaxSubmits : (Len(futures) >= f) ~> (Len(futures) >= f /\ Done(f))
\* A caller timed out and has None while its operation is still queued, and
\* another abandoned operation is running on the worker.
C14_Witness ==
  /\ \E t \in Threads : pc[t] = "idle" /\ result[t] = "None"
  /\ \E f \in 1..Len(futures) : Abandoned(f) /\ futures[f].state = "pending"
  /\ \E f \in 1..Len(futures) : Abandoned(f) /\ futures[f].state = "running"

\* C15: no capture call ends by raising to its caller, on any thread, before
\* or after stop().
C15_NeverRaises == \A t \in Threads : result[t] # "raised"

\* The deadline of each kind of call, in seconds.
DeadlineOf(k) == IF k = "image" THEN ImageTimeout
                 ELSE IF k = "array" THEN ArrayTimeout ELSE InfoTimeout

\* C16: a submitted operation has started only if every operation submitted
\* before it is done; a waiting caller waits with the deadline of its kind and
\* its wait can always end, by the result or by the timeout; and when the wait
\* ends the caller has the outcome of its own future if that is done, and the
\* timeout failure None otherwise.
C16_StartsAfterEarlier ==
  /\ [](\A f, g \in 1..Len(futures) :
          (f < g /\ futures[g].state # "pending") => Done(f))
  /\ [](\A t \in Threads :
          pc[t] = "wait"
            => /\ deadline[t] = DeadlineOf(futures[myFuture[t]].kind)
               /\ ENABLED (FutureResult(t) \/ FutureTimeout(t)))
  /\ [][\A t \in Threads :
          (pc[t] = "wait" /\ pc'[t] = "idle")
            => result'[t] = IF Done(myFuture[t]) THEN OutcomeOf(myFuture[t]) ELSE "None"]_vars
\* A caller waits for a queued get_camera_info while the worker is in the
\* device with an earlier operation.
C16_Witness ==
  /\ Len(futures) = 2
  /\ futures[2].state = "pending" /\ futures[2].kind = "info"
  /\ \E t \in Threads : pc[t] = "wait" /\ myFuture[t] = 2
  /\ myFuture[Worker] = 1 /\ pc[Worker] = "device"

\* C17: an operation's end changes no future but its own; a caller whose
\* future is done takes that future's outcome, whatever happened to the others;
\* the idle worker can always take the next queued operation; and no capture
\* step changes the frame relay or the lifecycle state.
C17_FailureStaysLocal ==
  /\ [][ /\ \A g \in 1..Len(futures) :
              futures'[g] # futures[g]
                => \/ g = myFuture[Worker]
                   \/ pc[Worker] = "idle" /\ execq # << >> /\ g = Head(execq)
         /\ \A t \in Threads :
              (pc[t] = "wait" /\ pc'[t] = "idle" /\ Done(myFuture[t]))
                => result'[t] = OutcomeOf(myFuture[t])
         /\ UNCHANGED <<streamVars, lifeVars>> ]_vars
  /\ []((pc[Worker] = "idle" /\ execq # << >>) => ENABLED WorkerTake)
\* The first operation failed and its caller timed out or got None; the second
\* one succeeded and its caller has the value.
C17_Witness ==
  /\ Len(futures) = 2
  /\ futures[1].state = "None" /\ futures[2].state = "value"
  /\ \E t, u \in Threads \ {MainThread} :
       /\ t # u
       /\ pc[t] = "idle" /\ result[t] = "None"
       /\ pc[u] = "idle" /\ result[u] = "value"

\* C18: no calling thread runs an operation itself (none of them is the
\* executor's worker thread): every call is queued for the worker.
C18_InlineOnlyOnWorker ==
  \A t \in Threads : pc[t] \notin {"direct_check", "lock", "device"}

\* The frames that were put in the queue and are still there or were returned.
Enqueued == Range(queue) \cup Range(delivered)

\* C21: every enqueued frame has pts = floor(raw * 90 / 1000), where raw is
\* the timestamp argument, or the clock reading when the argument is None:
\* pts * 1000 <= raw * 90 < (pts + 1) * 1000.
C21_PtsIsFloor ==
  \A n \in Enqueued :
    /\ fields[n].raw.epochs = IF tsArg = NoneTs THEN 1 ELSE 0
    /\ tsArg # NoneTs => fields[n].raw.off = tsArg[1]
    /\ fields[n].pts.epochs = fields[n].raw.epochs
    /\ fields[n].pts.off * 1000 <= fields[n].raw.off * 90
    /\ fields[n].raw.off * 90 < (fields[n].pts.off + 1) * 1000

\* C22: every enqueued frame has time_base 1/90000.
C22_TimeBaseFixed == \A n \in Enqueued : fields[n].time_base = <<1, 90000>>
\* Frames stamped from the clock: one was returned and another is queued.
C22_Witness == tsArg = NoneTs /\ delivered # << >> /\ queue # << >>

\* C23: a frame pushed with timestamp 2000 us is returned with pts 180 and
\* time_base 1/90000, and every returned frame has the keyframe flag that was
\* passed to outputframe.
C23_KeyframeCarried ==
  \A i \in 1..Len(delivered) :
    /\ tsArg = <<2000>> => /\ fields[delivered[i]].pts = Wide(180)
                           /\ fields[delivered[i]].time_base = <<1, 90000>>
    /\ fields[delivered[i]].is_keyframe = keyArg

InTeardown(t) == pc[t] \in {"stop_recording", "close", "shutdown", "base_stop"}

\* C24: whatever steps fail, a thread in the teardown goes from stop_recording
\* to close, to the executor shutdown, to the base stop, attempting each, and
\* then returns from stop() normally; the stream is marked stopped throughout,
\* and no stop() call ends by raising.
C24_TeardownBestEffort ==
  /\ [][\A t \in Threads :
          /\ (pc[t] = "stop_recording" /\ pc'[t] # pc[t])
                => pc'[t] = "close" /\ td'["stop_recording"] = td["stop_recording"] + 1
          /\ (pc[t] = "close" /\ pc'[t] # pc[t])
                => pc'[t] = "shutdown" /\ td'["close"] = td["close"] + 1
          /\ (pc[t] = "shutdown" /\ pc'[t] # pc[t])
                => pc'[t] = "base_stop" /\ td'["shutdown"] = td["shutdown"] + 1
          /\ (pc[t] = "base_stop" /\ pc'[t] # pc[t])
                => /\ pc'[t] = "idle" /\ td'["base_stop"] = td["base_stop"] + 1
                   /\ result'[t] = "returned"]_vars
  /\ [](\A t \in Threads : InTeardown(t) => stopped)
  /\ [](\A t \in Threads : result[t] # "raised")
  /\ []((stopped /\ \A t \in Threads : pc[t] = "idle")
          => \A s \in TeardownSteps : td[s] >= 1)
\* stop() returned after stop_recording, close and the base stop all failed.
C24_Witness ==
  /\ stopped /\ recording /\ cameraOpen /\ ~trackEnded
  /\ \A t \in Threads : pc[t] = "idle"
  /\ \E t \in Threads : result[t] = "returned" /\ tdBy[t] = 1

\* C25: once a stop() call that ran the teardown has returned, the executor
\* accepts no new work and the worker starts none.
C25_WorkerShutDown ==
  [][(\E t \in Threads : pc[t] = "idle" /\ result[t] = "returned" /\ tdBy[t] > 0)
       => /\ Len(futures') = Len(futures)
          /\ (pc[Worker] = "idle" => pc'[Worker] = "idle")]_vars

C27_StoppedIsTerminal ==
  [][ /\ stopped => stopped'
      /\ (stopped' # stopped) => \A t \in Threads : tdBy[t] = 0 ]_vars
\* After stop(): recv was cancelled, a capture call was refused, and the
\* destructor has run.
C27_Witness ==
  /\ stopped /\ destroyed
  /\ recvResult = "cancelled_stopped"
  /\ result[MainThread] = "raised"

\* C28: with the first frame coming FirstFrameAt after polling began (later
\* than one poll timeout, sooner than two), the first recv call to end ends in
\* the timeout cancellation, at PollTimeout, before any frame was produced and
\* with the queue untouched; the next one to end returns a frame, which is
\* the first frame unless the encoder overran the queue meanwhile.
C28_OneCancellationThenFrame ==
  [][(rpc = "waiting" /\ rpc' = "idle" /\ delivered = << >> /\ 1 \notin failed)
       => \/ /\ recvResult = "none"
             /\ recvResult' = "cancelled_timeout"
             /\ now = PollTimeout /\ calls = 0
             /\ queue' = queue /\ delivered' = delivered
          \/ /\ recvResult = "cancelled_timeout"
             /\ recvResult' = "packet"
             /\ now = FirstFrameAt
             /\ delivered' = <<Head(queue)>>
             /\ evictions = 0 => delivered' = <<1>>]_vars
\* One call was cancelled by the timeout and the next returned the first frame.
C28_Witness ==
  /\ delivered = <<1>> /\ recvResult = "packet" /\ rpc = "idle"
  /\ now = FirstFrameAt /\ evictions = 0

\* C29: stop_recording and close are never executed while a thread is inside
\* a capture or info call on the device.
C29_TeardownExcludesCapture ==
  [][(td'["stop_recording"] # td["stop_recording"] \/ td'["close"] # td["close"])
       => inDevice = {}]_vars

\* C30: the producer removes a frame only from a queue that holds QueueMaxsize
\* frames at the moment of the removal.
C30_EvictOnlyWhenFull ==
  [][(evictions' # evictions) => Len(queue) = QueueMaxsize]_vars

\* C31: once the stream is marked stopped, no capture or info operation
\* enters its call on the device.
C31_NoDeviceCallAfterStop ==
  [][\A e \in AllThreads : (pc[e] = "lock" /\ pc'[e] = "device") => ~stopped]_vars

\* C32: frame_index is the number of frames evicted, plus returned by recv,
\* plus queued (at every moment, so whenever no outputframe call is under
\* way), and each step that advances it puts the call's frame in the queue.
C32_FramesConserved ==
  /\ [](frame_index = evictions + Len(delivered) + Len(queue))
  /\ [][(frame_index' # frame_index)
          => /\ frame_index' = frame_index + 1
             /\ pkt \notin Range(queue)
             /\ queue' = Append(queue, pkt)]_vars
\* Between calls, with frames evicted, returned, queued, and one failed.
C32_Witness ==
  /\ ppc = "idle" /\ failed # {}
  /\ evictions > 0 /\ delivered # << >> /\ queue # << >>

\* C33: a frame leaves the queue only by being returned by recv or evicted by
\* the producer, and every frame in the queue leaves it eventually.
C33_NoFrameStaysForever ==
  /\ [][\A n \in Range(queue) \ Range(queue') :
          \/ delivered' = Append(delivered, n)
          \/ evictions' = evictions + 1 /\ ppc = "full"]_vars
  /\ \A n \in 1..MaxFrames : (n \in Range(queue)) ~> (n \notin Range(queue))
\* The encoder has made its last call and every admitted frame has left the
\* queue, some returned and some evicted.
C33_Witness ==
  /\ calls = MaxFrames /\ ppc = "idle" /\ queue = << >>
  /\ evictions > 0 /\ delivered # << >>


\* ------------------------------------------- src/videoStream.py (asyncio variant)
\* Lines 44-66, QueueOutput.outputframe on the encoder thread: build the
\* packet, hand queue.put_nowait to the loop with call_soon_threadsafe and
\* count the frame; an exception on the way is printed and swallowed.
AioOutputframe ==
  /\ aioRecording
  /\ aioCalls < MaxFrames
  /\ aioCalls' = aioCalls + 1
  /\ \E raised \in BOOLEAN :
       IF raised
         THEN UNCHANGED <<aioScheduled, aioFrameIndex>>
         ELSE /\ aioScheduled' = Append(aioScheduled, aioCalls + 1)
              /\ aioFrameIndex' = aioFrameIndex + 1
  /\ UNCHANGED <<aioQueue, aioStopped, aioRecording, aioStopCalls, aioRecv, aioResult>>
  /\ UNCHANGED notAio

\* Line 62: the loop runs the oldest scheduled callback, queue.put_nowait(pkt);
\* the queue is unbounded (line 98), so the put always succeeds.
AioRunCallback ==
  /\ aioScheduled # << >>
  /\ aioQueue' = Append(aioQueue, Head(aioScheduled))
  /\ aioScheduled' = Tail(aioScheduled)
  /\ UNCHANGED <<aioFrameIndex, aioCalls, aioStopped, aioRecording, aioStopCalls,
                 aioRecv, aioResult>>
  /\ UNCHANGED notAio

\* Line 106: recv() is called; the coroutine has not run yet.
AioRecvCall ==
  /\ aioRecv = "idle"
  /\ aioRecv' = "called"
  /\ UNCHANGED <<aioQueue, aioScheduled, aioFrameIndex, aioCalls, aioStopped,
                 aioRecording, aioStopCalls, aioResult>>
  /\ UNCHANGED notAio

\* Lines 111-121: the coroutine runs up to its first suspension: if _stopped,
\* raise CancelledError; otherwise await self.queue.get(), which returns the
\* oldest packet at once when there is one and suspends when the queue is
\* empty.
AioRecvRun ==
  /\ aioRecv = "called"
  /\ IF aioStopped
       THEN /\ aioRecv' = "idle"
            /\ aioResult' = "cancelled"
            /\ UNCHANGED aioQueue
       ELSE IF aioQueue # << >>
         THEN /\ aioRecv' = "idle"
              /\ aioResult' = "packet"
              /\ aioQueue' = Tail(aioQueue)
         ELSE /\ aioRecv' = "waiting"
              /\ UNCHANGED <<aioQueue, aioResult>>
  /\ UNCHANGED <<aioScheduled, aioFrameIndex, aioCalls, aioStopped, aioRecording,
                 aioStopCalls>>
  /\ UNCHANGED notAio

\* Lines 114-121: a put woke the suspended get(): recv returns the packet.
\* Nothing else resumes the coroutine: get() has no timeout and is not told
\* of _stopped.
AioRecvResume ==
  /\ aioRecv = "waiting"
  /\ aioQueue # << >>
  /\ aioRecv' = "idle"
  /\ aioResult' = "packet"
  /\ aioQueue' = Tail(aioQueue)
  /\ UNCHANGED <<aioScheduled, aioFrameIndex, aioCalls, aioStopped, aioRecording,
                 aioStopCalls>>
  /\ UNCHANGED notAio

\* Lines 123-143, stop() (a plain function, it runs without suspension): return
\* if already stopped; set _stopped; stop_recording(), close() and the base
\* stop(), each inside try / except: pass.  The queue is not touched.
AioStop ==
  /\ aioStopCalls < MaxSubmits
  /\ aioStopCalls' = aioStopCalls + 1
  /\ IF aioStopped
       THEN UNCHANGED <<aioStopped, aioRecording>>
       ELSE /\ aioStopped' = TRUE
            /\ aioRecording' = FALSE
  /\ UNCHANGED <<aioQueue, aioScheduled, aioFrameIndex, aioCalls, aioRecv, aioResult>>
  /\ UNCHANGED notAio

\* The asyncio variant: encoder thread, event loop, consumer, and stop().
AioNext ==
  \/ AioOutputframe
  \/ AioRunCallback
  \/ AioRecvCall
  \/ AioRecvRun
  \/ AioRecvResume
  \/ AioStop
SpecAioFair ==
  /\ Init /\ [][AioNext]_vars
  /\ WF_vars(AioOutputframe)
  /\ WF_vars(AioRunCallback)
  /\ WF_vars(AioRecvCall)
  /\ WF_vars(AioRecvRun)
  /\ WF_vars(AioRecvResume)

\* C34: in the asyncio-queue variant, a recv that is awaiting the empty queue
\* when stop() is called eventually completes with a cancellation signal.
C34_AwaitingRecvIsCancelled ==
  (aioRecv = "waiting" /\ aioQueue = << >> /\ aioStopped)
    ~> (aioRecv = "idle" /\ aioResult = "cancelled")


\* ------------------------------------------- QR scanning over the WebSocket
\* socket_server.py lines 74-77 and 98-100: handle_client receives a message
\* and process_message dispatches on its type.  The client sends
\* start_qr_scanning at most once.
WsReceive(type) ==
  /\ wsHandler = "idle"
  /\ wsMessages < MaxSubmits + 1
  /\ type = "start_qr_scanning" => qrTask = "none"
  /\ wsMessages' = wsMessages + 1
  /\ wsHandler' = type
  /\ UNCHANGED <<scanning, qrTask, qrCaptures, qrSinceStop, qrUnawaited, wsReply>>
  /\ UNCHANGED notQr

\* socket_server.py lines 109-117 with main.py lines 100-102: await
\* self.start_qr_scanning() creates the scanning task (it has not run yet);
\* then the reply is sent, which suspends the handler.
WsStartQr ==
  /\ wsHandler = "start_qr_scanning"
  /\ qrTask' = "created"
  /\ wsHandler' = "send_started"
  /\ UNCHANGED <<scanning, qrCaptures, qrSinceStop, qrUnawaited, wsReply, wsMessages>>
  /\ UNCHANGED notQr

\* socket_server.py lines 130-138 with main.py lines 104-106: await
\* self.stop_qr_scanning() runs main.stop_qr_scanning, whose body is the call
\* qr_detector.stop_qr_scanning() without await.  QRCodeDetector.stop_qr_scanning
\* is an async def (qrcode_handler.py line 87): the call only creates a
\* coroutine object, its body (self.scanning = False, line 89) never runs.
\* No exception is raised, so the handler goes on to send the reply.
WsStopQr ==
  /\ wsHandler = "stop_qr_scanning"
  /\ qrUnawaited' = qrUnawaited + 1
  /\ wsHandler' = "send_stopped"
  /\ UNCHANGED <<scanning, qrTask, qrCaptures, qrSinceStop, wsReply, wsMessages>>
  /\ UNCHANGED notQr

\* socket_server.py lines 41-49 and 114-117 / 135-138: the send completes and
\* the client has its reply.
WsReplySent ==
  /\ wsHandler \in {"send_started", "send_stopped"}
  /\ wsReply' = IF wsHandler = "send_started" THEN "QR scanning started successfully"
                                              ELSE "QR scanning stopped successfully"
  /\ qrSinceStop' = 0
  /\ wsHandler' = "idle"
  /\ UNCHANGED <<scanning, qrTask, qrCaptures, qrUnawaited, wsMessages>>
  /\ UNCHANGED notQr

\* qrcode_handler.py lines 52-59: the task starts: scanning = True, the loop
\* test passes, await asyncio.sleep(0).
QrTaskStart ==
  /\ qrTask = "created"
  /\ scanning' = TRUE
  /\ qrTask' = "yield"
  /\ UNCHANGED <<qrCaptures, qrSinceStop, qrUnawaited, wsHandler, wsReply, wsMessages>>
  /\ UNCHANGED notQr

\* qrcode_handler.py lines 62-73 and 79-85: capture_array() and process_frame:
\* with codes found the callback is awaited, without the loop sleeps 0.8 s;
\* an exception of capture_array sets scanning False and ends the task.
QrCapture ==
  /\ qrTask = "yield"
  /\ qrCaptures < MaxFrames
  /\ qrCaptures' = qrCaptures + 1
  /\ qrSinceStop' = IF wsReply = "QR scanning stopped successfully"
                      THEN qrSinceStop + 1 ELSE qrSinceStop
  /\ \E outcome \in {"codes", "nothing", "raised"} :
       /\ qrTask' = CASE outcome = "codes" -> "callback"
                      [] outcome = "nothing" -> "sleep"
                      [] outcome = "raised" -> "ended"
       /\ scanning' = IF outcome = "raised" THEN FALSE ELSE scanning
  /\ UNCHANGED <<qrUnawaited, wsHandler, wsReply, wsMessages>>
  /\ UNCHANGED notQr

\* qrcode_handler.py lines 69-73 and 79-85, main.py lines 92-98: the callback
\* (a broadcast) returns and the loop sleeps, or it raises and the task ends.
QrCallback ==
  /\ qrTask = "callback"
  /\ \E raised \in BOOLEAN :
       /\ qrTask' = IF raised THEN "ended" ELSE "sleep"
       /\ scanning' = IF raised THEN FALSE ELSE scanning
  /\ UNCHANGED <<qrCaptures, qrSinceStop, qrUnawaited, wsHandler, wsReply, wsMessages>>
  /\ UNCHANGED notQr

\* qrcode_handler.py lines 57-59 and 83-85: after the sleep, the loop test:
\* with scanning still True the next iteration begins (await asyncio.sleep(0)),
\* otherwise the loop ends and the finally clause runs.
QrLoopTest ==
  /\ qrTask = "sleep"
  /\ qrTask' = IF scanning THEN "yield" ELSE "ended"
  /\ scanning' = IF scanning THEN TRUE ELSE FALSE
  /\ UNCHANGED <<qrCaptures, qrSinceStop, qrUnawaited, wsHandler, wsReply, wsMessages>>
  /\ UNCHANGED notQr

\* The WebSocket handler of one client and the scanning task.
QrNext ==
  \/ \E type \in MessageTypes : WsReceive(type)
  \/ WsStartQr
  \/ WsStopQr
  \/ WsReplySent
  \/ QrTaskStart
  \/ QrCapture
  \/ QrCallback
  \/ QrLoopTest
SpecQr == Init /\ [][QrNext]_vars

\* C35: once the reply 'QR scanning stopped successfully' is sent, the scanning
\* flag is false, and the scanning loop makes no capture_array call beyond the
\* one of the iteration in progress.
C35_StopReplyStopsScanning ==
  /\ [][(wsHandler = "send_stopped" /\ wsHandler' = "idle") => ~scanning']_vars
  /\ [](wsReply = "QR scanning stopped successfully" => qrSinceStop <= 1)


\* ------------------------------------------- WebSocketServer.broadcast_message
\* Coroutines of one event loop interleave only where one of them is suspended:
\* other handlers run while no broadcast is running or while it is suspended
\* in a send.
LoopFree == bcPc \in {"idle", "sending"}

\* socket_server.py lines 69-71 and 30-33: a client connects and handle_client
\* registers it.  During a broadcast the new element lands in the set's table
\* before or after the position the iteration has reached.
WsConnect(c) ==
  /\ LoopFree
  /\ c \notin wsEver
  /\ wsEver' = wsEver \cup {c}
  /\ wsOpen' = wsOpen \cup {c}
  /\ clients' = clients \cup {c}
  /\ IF bcPc = "sending"
       THEN bcTodo' \in {bcTodo, bcTodo \cup {c}}
       ELSE UNCHANGED bcTodo
  /\ UNCHANGED <<bcPc, bcLen, bcCur, bcSent, disconnected_clients, exclude, bcOutcome,
                 bcStayed, bcRuns>>
  /\ UNCHANGED notBc

\* The peer closes the connection: from now on a send on it raises
\* ConnectionClosed (lines 59-60) and the handler's message loop ends (line 91).
WsPeerClose(c) ==
  /\ LoopFree
  /\ c \in wsOpen
  /\ wsOpen' = wsOpen \ {c}
  /\ UNCHANGED <<clients, wsEver, bcPc, bcTodo, bcLen, bcCur, bcSent, disconnected_clients,
                 exclude, bcOutcome, bcStayed, bcRuns>>
  /\ UNCHANGED notBc

\* socket_server.py lines 95-96 and 35-39: the handler of a closed connection
\* unregisters it in its finally clause.
WsUnregister(c) ==
  /\ LoopFree
  /\ c \in clients
  /\ c \notin wsOpen
  /\ clients' = clients \ {c}
  /\ bcTodo' = bcTodo \ {c}
  /\ bcStayed' = bcStayed \ {c}
  /\ UNCHANGED <<wsOpen, wsEver, bcPc, bcLen, bcCur, bcSent, disconnected_clients, exclude,
                 bcOutcome, bcRuns>>
  /\ UNCHANGED notBc

\* socket_server.py lines 51-55: broadcast_message(message, exclude) is called:
\* disconnected_clients = set(), and the iteration over self.clients begins.
BcStart(ex) ==
  /\ bcPc = "idle"
  /\ bcRuns < MaxSubmits
  /\ bcRuns' = bcRuns + 1
  /\ exclude' = ex
  /\ disconnected_clients' = {}
  /\ bcSent' = {}
  /\ bcStayed' = clients
  /\ bcTodo' = clients
  /\ bcLen' = Cardinality(clients)
  /\ bcCur' = NoConn
  /\ bcOutcome' = "running"
  /\ bcPc' = "iter"
  /\ UNCHANGED <<clients, wsOpen, wsEver>>
  /\ UNCHANGED notBc

\* Line 55, the set iterator's __next__: it raises RuntimeError ('Set changed
\* size during iteration') when the set does not have the size it had when the
\* iteration began.
SetChanged(size, registry) == Cardinality(registry) # size

\* socket_server.py lines 55-58 and 65-67: the next step of the for loop.  The
\* RuntimeError of the iterator is caught by nothing in broadcast_message and
\* leaves it; at the end of the iteration the clients whose send raised are
\* unregistered (unregister_client does not suspend) and the call returns; an
\* element equal to exclude is skipped; for any other the send begins.
BcStep ==
  /\ bcPc = "iter"
  /\ IF SetChanged(bcLen, clients)
       THEN /\ bcPc' = "idle"
            /\ bcOutcome' = "RuntimeError"
            /\ UNCHANGED <<clients, bcTodo, bcCur, bcStayed>>
       ELSE IF bcTodo = {}
         THEN /\ clients' = clients \ disconnected_clients
              /\ bcStayed' = bcStayed \ disconnected_clients
              /\ bcPc' = "idle"
              /\ bcOutcome' = "returned"
              /\ UNCHANGED <<bcTodo, bcCur>>
         ELSE \E c \in bcTodo :
              /\ bcTodo' = bcTodo \ {c}
              /\ IF c = exclude
                   THEN UNCHANGED <<bcPc, bcCur>>
                   ELSE bcPc' = "sending" /\ bcCur' = c
              /\ UNCHANGED <<clients, bcOutcome, bcStayed>>
  /\ UNCHANGED <<wsOpen, wsEver, bcLen, bcSent, disconnected_clients, exclude, bcRuns>>
  /\ UNCHANGED notBc

\* socket_server.py lines 58-63: the send resumes: it completed, or it raised
\* because the connection is closed and the client is added to
\* disconnected_clients.
BcSendDone ==
  /\ bcPc = "sending"
  /\ IF bcCur \in wsOpen
       THEN bcSent' = bcSent \cup {bcCur} /\ UNCHANGED disconnected_clients
       ELSE disconnected_clients' = disconnected_clients \cup {bcCur} /\ UNCHANGED bcSent
  /\ bcPc' = "iter"
  /\ bcCur' = NoConn
  /\ UNCHANGED <<clients, wsOpen, wsEver, bcTodo, bcLen, exclude, bcOutcome, bcStayed, bcRuns>>
  /\ UNCHANGED notBc

\* The server's clients coming and going, and broadcasts.
BroadcastNext ==
  \/ \E c \in Conns : WsConnect(c) \/ WsPeerClose(c) \/ WsUnregister(c)
  \/ \E ex \in Conns \cup {NoConn} : BcStart(ex)
  \/ BcStep
  \/ BcSendDone
SpecBroadcast == Init /\ [][BroadcastNext]_vars

\* C36: broadcast_message completes without error even when clients connect
\* or disconnect while it is suspended in a send; when it returns it has sent
\* (or tried to send) to every client other than exclude that stayed registered
\* throughout, and every client whose send failed is out of the registry.
C36_BroadcastSurvivesChurn ==
  /\ [](bcOutcome # "RuntimeError")
  /\ [][(bcOutcome = "running" /\ bcOutcome' = "returned")
          => /\ (bcStayed \ {exclude}) \subseteq (bcSent \cup disconnected_clients)
             /\ disconnected_clients \cap clients' = {}]_vars


\* ------------------------------------------- libs/receptacle.py
\* Lines 25-50, update_distance: nothing if the motor was not moving; else
\* the distance moves by the time since the move began, limited to
\* [0, MAX_DISTANCE].  move_motor sleeps for the whole distance still to
\* travel before it returns, so that time is at least that distance.
UpdateDistance(d, dir) ==
  LET time_taken == IF dir = "open" THEN MAX_DISTANCE - d ELSE d
  IN  CASE dir = "open"  -> IF d + time_taken < MAX_DISTANCE THEN d + time_taken
                                                              ELSE MAX_DISTANCE
        [] dir = "close" -> IF d - time_taken > 0 THEN d - time_taken ELSE 0
        [] OTHER         -> d

\* Lines 85-101, open_receptacle: clearPreviousMovement (motor.stop,
\* update_distance); return if already fully open; else move_motor("open", ...).
\* The result is <<distance_travelled, direction>>.
OpenReceptacle(d, dir) ==
  LET d1 == UpdateDistance(d, dir)
  IN  IF d1 >= MAX_DISTANCE THEN <<d1, "">> ELSE <<d1, "open">>

\* Lines 104-120, close_receptacle: the same towards the closed position.
CloseReceptacle(d, dir) ==
  LET d1 == UpdateDistance(d, dir)
  IN  IF d1 <= 0 THEN <<d1, "">> ELSE <<d1, "close">>

\* The call p commands the motor: which is open_receptacle or close_receptacle.
Drive(p, which) ==
  LET after == IF which = "open" THEN OpenReceptacle(distance_travelled, direction)
                                 ELSE CloseReceptacle(distance_travelled, direction)
  IN  /\ distance_travelled' = after[1]
      /\ direction' = after[2]
      /\ rcDriver' = p
      /\ rcDrives' = rcDrives + 1

\* Lines 153-164: toggle_receptacle is called (call p, the next one) and draws
\* the random number r: currentProcess = r; open_receptacle(); then the
\* 3-second wait.
RcToggleStart(p, r) ==
  /\ p = Len(rcStarted) + 1
  /\ rcStarted' = Append(rcStarted, p)
  /\ rcToken' = [rcToken EXCEPT ![p] = r]
  /\ currentProcess' = r
  /\ Drive(p, "open")
  /\ rcPc' = [rcPc EXCEPT ![p] = "open_wait"]
  /\ UNCHANGED <<rcSeconds, rcIdx, rcOutcome>>
  /\ UNCHANGED notRc

\* Lines 166-174: the wait is over: return if currentProcess is no longer this
\* call's random number; otherwise close_receptacle().
RcToggleWake(p) ==
  /\ rcPc[p] = "open_wait"
  /\ rcPc' = [rcPc EXCEPT ![p] = "done"]
  /\ IF currentProcess # rcToken[p]
       THEN /\ rcOutcome' = [rcOutcome EXCEPT ![p] = "interrupted"]
            /\ UNCHANGED <<distance_travelled, direction, rcDriver, rcDrives>>
       ELSE /\ rcOutcome' = [rcOutcome EXCEPT ![p] = "closed"]
            /\ Drive(p, "close")
  /\ UNCHANGED <<currentProcess, rcToken, rcSeconds, rcIdx, rcStarted>>
  /\ UNCHANGED notRc

\* Lines 132-150, one pass of countdown_receptacle's loop for index i: past
\* the last index the call ends; if currentProcess is no longer this call's
\* number it returns; otherwise it opens (odd i) or closes (even i) and
\* sleeps one second.
CountdownPass(p, i) ==
  IF i >= rcSeconds'[p]
    THEN /\ rcPc' = [rcPc EXCEPT ![p] = "done"]
         /\ rcOutcome' = [rcOutcome EXCEPT ![p] = "finished"]
         /\ UNCHANGED <<rcIdx, distance_travelled, direction, rcDriver, rcDrives>>
    ELSE IF currentProcess' # rcToken'[p]
      THEN /\ rcPc' = [rcPc EXCEPT ![p] = "done"]
           /\ rcOutcome' = [rcOutcome EXCEPT ![p] = "interrupted"]
           /\ UNCHANGED <<rcIdx, distance_travelled, direction, rcDriver, rcDrives>>
      ELSE /\ rcPc' = [rcPc EXCEPT ![p] = "sleep"]
           /\ rcIdx' = [rcIdx EXCEPT ![p] = i]
           /\ Drive(p, IF i % 2 # 0 THEN "open" ELSE "close")
           /\ UNCHANGED rcOutcome

\* Lines 123-150: countdown_receptacle(seconds, action) is called (call p, the
\* next one) and draws r: currentProcess = r, then the first pass of the loop.
RcCountdownStart(p, r, seconds) ==
  /\ p = Len(rcStarted) + 1
  /\ rcStarted' = Append(rcStarted, p)
  /\ rcToken' = [rcToken EXCEPT ![p] = r]
  /\ rcSeconds' = [rcSeconds EXCEPT ![p] = seconds]
  /\ currentProcess' = r
  /\ CountdownPass(p, 0)
  /\ UNCHANGED notRc

\* Lines 144 / 150 and 132-150: the one-second sleep is over; the next pass.
RcCountdownWake(p) ==
  /\ rcPc[p] = "sleep"
  /\ UNCHANGED <<currentProcess, rcToken, rcSeconds, rcStarted>>
  /\ CountdownPass(p, rcIdx[p] + 1)
  /\ UNCHANGED notRc

\* Calls of toggle_receptacle and countdown_receptacle on one event loop.
ReceptacleNext ==
  \/ \E p \in RcCalls, r \in RandomInputs :
       \/ RcToggleStart(p, r)
       \/ \E seconds \in 0..MaxSeconds : RcCountdownStart(p, r, seconds)
  \/ \E p \in RcCalls : RcToggleWake(p) \/ RcCountdownWake(p)
SpecReceptacle == Init /\ [][ReceptacleNext]_vars

\* C37: a toggle_receptacle call that ends its 3-second wait after a newer
\* call has started is interrupted and does not command the motor; whenever
\* the motor is commanded, it is by the most recently started call.
C37_OnlyNewestCallDrives ==
  /\ [][\A p \in RcCalls :
          (rcPc[p] = "open_wait" /\ rcPc'[p] = "done" /\ rcStarted[Len(rcStarted)] # p)
            => (rcOutcome'[p] = "interrupted" /\ rcDrives' = rcDrives)]_vars
  /\ [][(rcDrives' # rcDrives) => rcDriver' = rcStarted'[Len(rcStarted')]]_vars

====
